---- MODULE Spec2Model ----
(***************************************************************************)
(* Model of numeric_attr_extension_to_ontology_property_rust/src/main.rs:  *)
(* the merge-based two-sample Kolmogorov-Smirnov engine (merge, ks), the   *)
(* TSV cache (--output / --input), the ranking and query layer of main     *)
(* (scoring, sort, top-k loop, --compare-with loop), the types pass and    *)
(* the properties pass.                                                    *)
(*                                                                         *)
(* Conventions.                                                            *)
(*  - A Rust String is a sequence of one-character strings, so that        *)
(*    split, strip_prefix, contains and format! are computed character by  *)
(*    character.                                                           *)
(*  - An f64 that results from arithmetic is a record: a finite value is   *)
(*    an exact fraction n/d, and the IEEE specials that division by zero   *)
(*    produces (inf, -inf, NaN) are values of their own.  Rounding of      *)
(*    finite results is not modelled.                                      *)
(*  - The f64 values stored in bags and extensions are integers.           *)
(***************************************************************************)
EXTENDS Integers, Sequences, FiniteSets, TLC

VARIABLES
    \* a call of ks: its two arguments as passed, the caller's second bag
    \* after the call, the program counter of the call, the value returned
    sorted_bag, unsorted_bag, lst_after, ks_pc, ks_result,
    \* main: the index, the arguments bag, k and compare_with, the ranking,
    \* the lines of the top-k loop, one output record per --compare-with
    \* pattern handled so far, the program counter
    dbpedia_type_and_property_to_extension, bag, k, compare_withs,
    dbpedia_type_and_property_to_ks_test_sorted, printed, compare_out, pc,
    \* a second execution on the same input: which execution this is and the
    \* ranking of the first
    execution, first_ranking,
    \* the cache: the text of the TSV file, who wrote it, the state of the run
    \* that reads it with --input and the index that run builds
    input_tsv, tsv_from, load_pc, loaded_extension,
    \* the types pass: the triples of the --types graph in iteration order,
    \* how many the loop has handled, the resource-to-type map
    types_graph, types_handled, dbpedia_resource_to_type,
    \* the properties pass: the triples of the --properties graph in
    \* iteration order, how many the loop has handled
    properties_graph, properties_handled

ksVars == <<sorted_bag, unsorted_bag, lst_after, ks_pc, ks_result>>

argVars == <<dbpedia_type_and_property_to_extension, bag, k, compare_withs>>

mainVars == <<dbpedia_type_and_property_to_extension, bag, k, compare_withs,
              dbpedia_type_and_property_to_ks_test_sorted, printed, compare_out, pc,
              execution, first_ranking>>

cacheVars == <<input_tsv, tsv_from, load_pc, loaded_extension>>

typesVars == <<types_graph, types_handled, dbpedia_resource_to_type,
               properties_graph, properties_handled>>

vars == <<ksVars, mainVars, cacheVars, typesVars>>

----------------------------------------------------------------------------
(* Bounds *)

\* longest bag handed to ks()
MaxLen == 3
\* most (type, property) keys in the index of a ranking run
MaxKeys == 3
\* longest query bag of a ranking run
MaxBagLen == 2
\* largest -k of a ranking run
MaxK == 3
\* most --compare-with patterns of a run
MaxPatterns == 2

\* -k when it is not given: #[clap(short, default_value_t=100)]
DefaultK == 100

----------------------------------------------------------------------------
(* Generic helpers *)

\* the values of the bags handed to ks()
BagValues == 1..5

Min(a, b) == IF a <= b THEN a ELSE b

Abs(i) == IF i < 0 THEN -i ELSE i

Range(s) == {s[i] : i \in 1..Len(s)}

SeqsUpTo(S, n) == UNION {[1..m -> S] : m \in 0..n}

IsSortedAsc(s) == \A i \in 1..Len(s) - 1 : s[i] <= s[i + 1]

----------------------------------------------------------------------------
(* f64 arithmetic as far as ks() uses it *)

Fin(n, d) == [k |-> "fin", n |-> n, d |-> d]

PosInf == [k |-> "inf", n |-> 1, d |-> 0]

NegInf == [k |-> "inf", n |-> -1, d |-> 0]

NaN == [k |-> "nan", n |-> 0, d |-> 0]

\* 1.0 / (len as f64): division by zero is +inf, not a panic
one_over(len) == IF len = 0 THEN PosInf ELSE Fin(1, len)

\* (index as f64) * r
f64_mul_index(index, r) ==
    CASE r.k = "fin" -> Fin(index * r.n, r.d)
      [] r.k = "inf" -> IF index = 0 THEN NaN ELSE r
      [] OTHER -> NaN

\* x - y
f64_sub(x, y) ==
    CASE x.k = "nan" \/ y.k = "nan" -> NaN
      [] x.k = "fin" /\ y.k = "fin" -> Fin(x.n * y.d - y.n * x.d, x.d * y.d)
      [] x.k = "inf" /\ y.k = "inf" -> IF x.n = y.n THEN NaN ELSE x
      [] x.k = "inf" -> x
      [] OTHER -> IF y.n > 0 THEN NegInf ELSE PosInf

\* x.abs()
f64_abs(x) ==
    CASE x.k = "fin" -> Fin(Abs(x.n), x.d)
      [] x.k = "inf" -> PosInf
      [] OTHER -> NaN

\* x < y for two values that are not NaN
f64_lt(x, y) ==
    CASE x.k = "fin" /\ y.k = "fin" -> x.n * y.d < y.n * x.d
      [] x.k = "inf" /\ y.k = "inf" -> x.n < y.n
      [] x.k = "inf" -> x.n < 0
      [] OTHER -> y.n > 0

\* x.max(y): a NaN operand is ignored
f64_max(x, y) ==
    CASE y.k = "nan" -> x
      [] x.k = "nan" -> y
      [] OTHER -> IF f64_lt(x, y) THEN y ELSE x

----------------------------------------------------------------------------
(* sort_by(|a, b| a.partial_cmp(b).unwrap()) on a Vec<f64>: a stable sort *)

RECURSIVE insert_sorted(_, _)
insert_sorted(s, v) ==
    IF s = <<>> THEN <<v>>
    ELSE IF v < s[Len(s)] THEN Append(insert_sorted(SubSeq(s, 1, Len(s) - 1), v), s[Len(s)])
    ELSE Append(s, v)

RECURSIVE sort_f64(_)
sort_f64(s) ==
    IF s = <<>> THEN <<>>
    ELSE insert_sorted(sort_f64(SubSeq(s, 1, Len(s) - 1)), s[Len(s)])

----------------------------------------------------------------------------
(* merge *)

\* only the first element equal to x is passed
advance_one(list, index, x) ==
    IF index < Len(list) /\ list[index + 1] = x THEN index + 1 ELSE index

\* while index < len && list[index] == x { index += 1 }
RECURSIVE advance(_, _, _)
advance(list, index, x) ==
    IF index < Len(list) /\ list[index + 1] = x
    THEN advance(list, index + 1, x)
    ELSE index

\* the value x the closure picks for the next item
next_x(sorted_list_1, sorted_list_2, index1, index2) ==
    IF index1 = Len(sorted_list_1) THEN sorted_list_2[index2 + 1]
    ELSE IF index2 = Len(sorted_list_2) THEN sorted_list_1[index1 + 1]
    ELSE Min(sorted_list_1[index1 + 1], sorted_list_2[index2 + 1])

\* the items the from_fn closure yields from (index1, index2) on
RECURSIVE merge_from(_, _, _, _)
merge_from(sorted_list_1, sorted_list_2, index1, index2) ==
    IF index1 < Len(sorted_list_1) \/ index2 < Len(sorted_list_2)
    THEN LET x == next_x(sorted_list_1, sorted_list_2, index1, index2)
             i1 == advance(sorted_list_1, index1, x)
             i2 == advance(sorted_list_2, index2, x)
         IN  <<<<x, i1, i2>>>> \o merge_from(sorted_list_1, sorted_list_2, i1, i2)
    ELSE <<>>

merge(sorted_list_1, sorted_list_2) == merge_from(sorted_list_1, sorted_list_2, 0, 0)

----------------------------------------------------------------------------
(* ks *)

\* the for loop of ks over the items of merge, from item i on
RECURSIVE ks_loop(_, _, _, _, _)
ks_loop(items, i, one_over_len_sorted_bag, one_over_len_unsorted_bag, max_difference) ==
    IF i > Len(items) THEN max_difference
    ELSE ks_loop(items, i + 1, one_over_len_sorted_bag, one_over_len_unsorted_bag,
                 f64_max(max_difference,
                         f64_abs(f64_sub(f64_mul_index(items[i][2], one_over_len_sorted_bag),
                                         f64_mul_index(items[i][3], one_over_len_unsorted_bag)))))

\* one call of ks: ret is the value returned, lst the caller's second bag as
\* the call leaves it (sorted in place)
ks_call(sorted_bag_arg, unsorted_bag_arg) ==
    LET sorted_unsorted == sort_f64(unsorted_bag_arg)
    IN  [ret |-> ks_loop(merge(sorted_bag_arg, sorted_unsorted), 1,
                         one_over(Len(sorted_bag_arg)), one_over(Len(sorted_unsorted)),
                         Fin(0, 1)),
         lst |-> sorted_unsorted]

ks(sorted_bag_arg, unsorted_bag_arg) == ks_call(sorted_bag_arg, unsorted_bag_arg).ret


----------------------------------------------------------------------------
(* Strings *)

\* s.starts_with(p)
starts_with(s, p) == Len(s) >= Len(p) /\ SubSeq(s, 1, Len(p)) = p

\* s.ends_with(p)
ends_with(s, p) == Len(s) >= Len(p) /\ SubSeq(s, Len(s) - Len(p) + 1, Len(s)) = p

\* the least 1-based position at which pat occurs in s, 0 if it does not
find(s, pat) ==
    LET hits == {i \in 1..(Len(s) - Len(pat) + 1) : SubSeq(s, i, i + Len(pat) - 1) = pat}
    IN  IF hits = {} THEN 0 ELSE CHOOSE i \in hits : \A j \in hits : i <= j

\* s.contains(pat)
contains(s, pat) == find(s, pat) # 0

\* s.split(sep) collected: the pieces between the occurrences of a non-empty sep
RECURSIVE split(_, _)
split(s, sep) ==
    LET i == find(s, sep)
    IN  IF i = 0 THEN <<s>>
        ELSE <<SubSeq(s, 1, i - 1)>> \o split(SubSeq(s, i + Len(sep), Len(s)), sep)

----------------------------------------------------------------------------
(* main: scoring, sorting, the top-k loop and the --compare-with loop *)

\* the orders in which a HashMap with key set S may be iterated
iteration_orders(S) ==
    {o \in [1..Cardinality(S) -> S] : \A i, j \in 1..Cardinality(S) : o[i] = o[j] => i = j}

\* the map closure of the scoring: (key, (ks(&bag, &mut lst), lst))
score_entry(key, sorted_query, lst) ==
    LET call == ks_call(sorted_query, lst)
    IN  [key |-> key, score |-> call.ret, lst |-> call.lst]

\* the scored entries collected in the HashMap iteration order `order`
collect_scored(order, extension, sorted_query) ==
    [i \in 1..Len(order) |-> score_entry(order[i], sorted_query, extension[order[i]])]

\* a sort that puts the larger scores first
RECURSIVE sort_by_score_descending(_)
sort_by_score_descending(entries) ==
    IF entries = <<>> THEN <<>>
    ELSE LET rest == sort_by_score_descending(SubSeq(entries, 1, Len(entries) - 1))
             e == entries[Len(entries)]
             before == {i \in 1..Len(rest) : ~f64_lt(rest[i].score, e.score)}
             n == Cardinality(before)
         IN  SubSeq(rest, 1, n) \o <<e>> \o SubSeq(rest, n + 1, Len(rest))

\* sort_by(|(_, (a, _)), (_, (b, _))| a.partial_cmp(b).unwrap()): stable, so
\* entries of equal score keep the order they were collected in
RECURSIVE sort_by_score(_)
sort_by_score(entries) ==
    IF entries = <<>> THEN <<>>
    ELSE LET rest == sort_by_score(SubSeq(entries, 1, Len(entries) - 1))
             e == entries[Len(entries)]
             before == {i \in 1..Len(rest) : ~f64_lt(e.score, rest[i].score)}
             n == Cardinality(before)
         IN  SubSeq(rest, 1, n) \o <<e>> \o SubSeq(rest, n + 1, Len(rest))

\* the upper end of the range `0..args.k.min(sorted.iter().take(args.k).len())`
\* with the clamp left out
top_k_count_unclamped(k_arg, ranking) == k_arg

\* the upper end of the range `0..args.k.min(sorted.iter().take(args.k).len())`
top_k_count(k_arg, ranking) == Min(k_arg, Min(k_arg, Len(ranking)))

\* the body of `for compare_with in compare_withs`: the lines it prints for
\* one pattern (rows), or the [ERROR] line (error)
compare_with_output(compare_with, ranking) ==
    IF starts_with(compare_with, <<":">>)
    THEN LET dbpedia_property_name == SubSeq(compare_with, 2, Len(compare_with))
             keep(e) == e.key[2] = dbpedia_property_name
         IN  [pattern |-> compare_with, error |-> FALSE, rows |-> SelectSeq(ranking, keep)]
    ELSE IF ends_with(compare_with, <<":">>)
    THEN LET dbpedia_type_name == SubSeq(compare_with, 1, Len(compare_with) - 1)
             keep(e) == e.key[1] = dbpedia_type_name
         IN  [pattern |-> compare_with, error |-> FALSE, rows |-> SelectSeq(ranking, keep)]
    ELSE IF contains(compare_with, <<":">>)
    THEN LET dbpedia_type_name == split(compare_with, <<":">>)[1]
             dbpedia_property_name == split(compare_with, <<":">>)[2]
             keep(e) == e.key[1] = dbpedia_type_name /\ e.key[2] = dbpedia_property_name
         IN  [pattern |-> compare_with, error |-> FALSE, rows |-> SelectSeq(ranking, keep)]
    ELSE [pattern |-> compare_with, error |-> TRUE, rows |-> <<>>]

\* [5/6] and [6/6]: the bag is sorted, every extension is scored against it,
\* the scored entries are collected in the iteration order of the HashMap
\* (any order) and sorted by score
Rank ==
    /\ pc = "rank"
    /\ \E order \in iteration_orders(DOMAIN dbpedia_type_and_property_to_extension) :
          dbpedia_type_and_property_to_ks_test_sorted' =
              sort_by_score(collect_scored(order, dbpedia_type_and_property_to_extension,
                                           sort_f64(bag)))
    /\ bag' = sort_f64(bag)
    /\ pc' = "top_k"
    /\ UNCHANGED <<dbpedia_type_and_property_to_extension, k, compare_withs, printed,
                   compare_out, execution, first_ranking, ksVars, cacheVars, typesVars>>

\* the top-k loop: indexing the ranking past its end would panic
PrintTopK ==
    /\ pc = "top_k"
    /\ LET count == top_k_count(k, dbpedia_type_and_property_to_ks_test_sorted)
           len == Len(dbpedia_type_and_property_to_ks_test_sorted)
       IN  /\ printed' = SubSeq(dbpedia_type_and_property_to_ks_test_sorted, 1, Min(count, len))
           /\ pc' = IF count > len THEN "panic"
                    ELSE IF compare_withs = <<>> THEN "done" ELSE "compare"
    /\ UNCHANGED <<argVars, dbpedia_type_and_property_to_ks_test_sorted, compare_out,
                   execution, first_ranking, ksVars, cacheVars, typesVars>>

\* a loop that is left at the first pattern without ':'
after_compare_with_abort(output, handled, given) ==
    IF output.error \/ handled = given THEN "done" ELSE "compare"

\* where the loop goes after the body has handled one pattern: every branch
\* of the body, the [ERROR] one included, falls through to the next pattern
after_compare_with(output, handled, given) ==
    IF handled = given THEN "done" ELSE "compare"

\* one iteration of `for compare_with in compare_withs`
CompareWith ==
    /\ pc = "compare"
    /\ LET output == compare_with_output(compare_withs[Len(compare_out) + 1],
                                         dbpedia_type_and_property_to_ks_test_sorted)
       IN  /\ compare_out' = Append(compare_out, output)
           /\ pc' = after_compare_with(output, Len(compare_out) + 1, Len(compare_withs))
    /\ UNCHANGED <<argVars, dbpedia_type_and_property_to_ks_test_sorted, printed,
                   execution, first_ranking, ksVars, cacheVars, typesVars>>

\* the program is started again with the same arguments and the same index
RunAgain ==
    /\ pc = "done"
    /\ execution = 1
    /\ execution' = 2
    /\ first_ranking' = dbpedia_type_and_property_to_ks_test_sorted
    /\ dbpedia_type_and_property_to_ks_test_sorted' = <<>>
    /\ printed' = <<>>
    /\ compare_out' = <<>>
    /\ pc' = "rank"
    /\ UNCHANGED <<argVars, ksVars, cacheVars, typesVars>>

----------------------------------------------------------------------------
(* The TSV cache: --output (save) and --input (load) *)

DigitChars == <<"0", "1", "2", "3", "4", "5", "6", "7", "8", "9">>

is_digit(c) == \E d \in 1..10 : DigitChars[d] = c

digit_value(c) == (CHOOSE d \in 1..10 : DigitChars[d] = c) - 1

\* the decimal digits of a natural number
RECURSIVE format_nat(_)
format_nat(n) ==
    IF n < 10 THEN <<DigitChars[n + 1]>>
    ELSE Append(format_nat(n \div 10), DigitChars[(n % 10) + 1])

\* the number a non-empty string of digits denotes
RECURSIVE parse_nat(_)
parse_nat(digits) ==
    IF Len(digits) = 1 THEN digit_value(digits[1])
    ELSE 10 * parse_nat(SubSeq(digits, 1, Len(digits) - 1)) + digit_value(digits[Len(digits)])

\* {:?} of an f64 with an integer value: sign, digits, ".0"
format_f64(v) ==
    (IF v < 0 THEN <<"-">> ELSE <<>>) \o format_nat(Abs(v)) \o <<".", "0">>

\* the items of parts with sep between them
RECURSIVE join(_, _)
join(parts, sep) ==
    IF parts = <<>> THEN <<>>
    ELSE IF Len(parts) = 1 THEN parts[1]
    ELSE parts[1] \o sep \o join(Tail(parts), sep)

\* {:?} of a Vec<f64>: "[" the elements separated by ", " "]"
format_vec(extension) ==
    <<"[">> \o join([i \in 1..Len(extension) |-> format_f64(extension[i])], <<",", " ">>)
            \o <<"]">>

\* format!("{}\t{}\t{:?}\n", dbp_type, dbp_property, extension)
format_line(dbp_type, dbp_property, extension) ==
    dbp_type \o <<"\t">> \o dbp_property \o <<"\t">> \o format_vec(extension) \o <<"\n">>

\* the text --output writes when the HashMap is iterated in `order`
RECURSIVE save_text(_, _)
save_text(order, index) ==
    IF order = <<>> THEN <<>>
    ELSE format_line(order[1][1], order[1][2], index[order[1]])
             \o save_text(Tail(order), index)

\* char::to_ascii_lowercase on the letters the number words are made of
ascii_lower(c) ==
    CASE c = "A" -> "a" [] c = "E" -> "e" [] c = "F" -> "f" [] c = "I" -> "i"
      [] c = "N" -> "n" [] c = "T" -> "t" [] c = "Y" -> "y" [] OTHER -> c

\* str::parse::<f64>: an optional sign, then digits with an optional point
\* and an optional exponent, or one of the words inf, infinity, nan in any
\* case.  A whole number is its integer, another decimal numeral the record
\* of its digits, the words are the infinities and NaN.
parse_f64(token) ==
    LET body == IF token # <<>> /\ token[1] \in {"-", "+"} THEN Tail(token) ELSE token
        word == [i \in 1..Len(body) |-> ascii_lower(body[i])]
        epos == find(word, <<"e">>)
        mantissa == IF epos = 0 THEN body ELSE SubSeq(body, 1, epos - 1)
        exponent == IF epos = 0 THEN <<>> ELSE SubSeq(body, epos + 1, Len(body))
        exponent_digits == IF exponent # <<>> /\ exponent[1] \in {"-", "+"}
                           THEN Tail(exponent) ELSE exponent
        dot == find(mantissa, <<".">>)
        whole == IF dot = 0 THEN mantissa ELSE SubSeq(mantissa, 1, dot - 1)
        frac == IF dot = 0 THEN <<>> ELSE SubSeq(mantissa, dot + 1, Len(mantissa))
        ok == /\ \A i \in 1..Len(whole) : is_digit(whole[i])
              /\ \A i \in 1..Len(frac) : is_digit(frac[i])
              /\ Len(whole) + Len(frac) >= 1
              /\ epos # 0 => exponent_digits # <<>>
              /\ \A i \in 1..Len(exponent_digits) : is_digit(exponent_digits[i])
        negative == token # <<>> /\ token[1] = "-"
        magnitude == IF whole = <<>> THEN 0 ELSE parse_nat(whole)
        signed == IF negative THEN -magnitude ELSE magnitude
    IN  IF word \in {<<"i", "n", "f">>, <<"i", "n", "f", "i", "n", "i", "t", "y">>}
        THEN [ok |-> TRUE, val |-> IF negative THEN NegInf ELSE PosInf]
        ELSE IF word = <<"n", "a", "n">> THEN [ok |-> TRUE, val |-> NaN]
        ELSE IF ~ok THEN [ok |-> FALSE, val |-> 0]
        ELSE IF /\ \A i \in 1..Len(frac) : frac[i] = "0"
                /\ \A i \in 1..Len(exponent_digits) : exponent_digits[i] = "0"
        THEN [ok |-> TRUE, val |-> signed]
        ELSE [ok |-> TRUE, val |-> [whole |-> signed, frac |-> frac, exponent |-> exponent]]

\* parse_string_to_vector: the slice s[1..s.len()-1] panics on a string
\* shorter than two characters; a token that is no number gives None, which
\* the caller's expect turns into a panic. ok is FALSE in both cases.
parse_string_to_vector(s) ==
    IF Len(s) < 2 THEN [ok |-> FALSE, vec |-> <<>>]
    ELSE LET tokens == split(SubSeq(s, 2, Len(s) - 1), <<",", " ">>)
         IN  IF \E i \in 1..Len(tokens) : ~parse_f64(tokens[i]).ok
             THEN [ok |-> FALSE, vec |-> <<>>]
             ELSE [ok |-> TRUE, vec |-> [i \in 1..Len(tokens) |-> parse_f64(tokens[i]).val]]

\* BufRead::lines: the text cut at every "\n", a "\r" before it dropped, no
\* empty last line after a final "\n"
read_lines(text) ==
    LET pieces == split(text, <<"\n">>)
        kept == IF pieces[Len(pieces)] = <<>> THEN SubSeq(pieces, 1, Len(pieces) - 1)
                ELSE pieces
    IN  [i \in 1..Len(kept) |->
            IF ends_with(kept[i], <<"\r">>) THEN SubSeq(kept[i], 1, Len(kept[i]) - 1)
            ELSE kept[i]]

\* HashMap::insert: a later value for the same key replaces the earlier one
insert(map, key, value) ==
    [x \in (DOMAIN map) \cup {key} |-> IF x = key THEN value ELSE map[x]]

\* the body of the --input loop for one line: three times next() on the
\* split, each with expect; what follows the third field is never looked at
load_line(map, line) ==
    LET line_split == split(line, <<"\t">>)
    IN  IF Len(line_split) < 3 THEN [ok |-> FALSE, map |-> map]
        ELSE IF ~parse_string_to_vector(line_split[3]).ok THEN [ok |-> FALSE, map |-> map]
        ELSE [ok |-> TRUE,
              map |-> insert(map, <<line_split[1], line_split[2]>>,
                             parse_string_to_vector(line_split[3]).vec)]

\* the --input loop from line i on; ok is FALSE when a line made it panic
RECURSIVE load_from(_, _, _)
load_from(lines, i, map) ==
    IF i > Len(lines) THEN [ok |-> TRUE, map |-> map]
    ELSE IF ~load_line(map, lines[i]).ok THEN [ok |-> FALSE, map |-> map]
    ELSE load_from(lines, i + 1, load_line(map, lines[i]).map)

\* a run with --output: the index is written, one line per key, in the
\* iteration order of the HashMap
Save ==
    /\ load_pc = "idle"
    /\ tsv_from = "none"
    /\ \E order \in iteration_orders(DOMAIN dbpedia_type_and_property_to_extension) :
          input_tsv' = save_text(order, dbpedia_type_and_property_to_extension)
    /\ tsv_from' = "save"
    /\ UNCHANGED <<load_pc, loaded_extension, ksVars, mainVars, typesVars>>

\* a run with --input: the file is read line by line into the index; a panic
\* ends the process before anything is ranked
Load ==
    /\ load_pc = "idle"
    /\ tsv_from # "none"
    /\ LET result == load_from(read_lines(input_tsv), 1, <<>>)
       IN  /\ load_pc' = IF result.ok THEN "loaded" ELSE "panic"
           /\ loaded_extension' = IF result.ok THEN result.map ELSE <<>>
    /\ UNCHANGED <<input_tsv, tsv_from, ksVars, mainVars, typesVars>>

----------------------------------------------------------------------------
(* The types pass.  In this pass a string is a sequence of pieces: a piece   *)
(* is one character or one of the fixed texts below taken whole.            *)

RESOURCE_NS == "http://dbpedia.org/resource/"

ONTOLOGY_NS == "http://dbpedia.org/ontology/"

RDF_NS == "http://www.w3.org/1999/02/"

RDF_TYPE == "22-rdf-syntax-ns#type"

OWL_THING == "http://www.w3.org/2002/07/owl#Thing"

PROPERTY_NS == "http://dbpedia.org/property/"

\* s.strip_prefix(ns).unwrap_or_else(|| s)
strip_prefix_or_self(s, ns) ==
    IF s # <<>> /\ s[1] = ns THEN Tail(s) ELSE s

\* s.contains("/")
contains_slash(s) ==
    \E i \in 1..Len(s) :
        s[i] \in {"/", RESOURCE_NS, ONTOLOGY_NS, RDF_NS, OWL_THING, PROPERTY_NS}

\* s.contains("22-rdf-syntax-ns#type")
contains_rdf_type(s) == \E i \in 1..Len(s) : s[i] = RDF_TYPE

\* a loop body that keeps the first type seen for a resource
types_step_keep_first(map, triple) ==
    IF ~contains_rdf_type(triple.predicate) THEN map
    ELSE LET _resource == strip_prefix_or_self(triple.subject, RESOURCE_NS)
             _type == strip_prefix_or_self(triple.object, ONTOLOGY_NS)
         IN  IF contains_slash(_type) \/ _resource \in DOMAIN map THEN map
             ELSE insert(map, _resource, _type)

\* the body of `for triple in types_graph.triples_iter()`: the map after the
\* triple
types_step(map, triple) ==
    IF ~contains_rdf_type(triple.predicate) THEN map
    ELSE LET _resource == strip_prefix_or_self(triple.subject, RESOURCE_NS)
             _type == strip_prefix_or_self(triple.object, ONTOLOGY_NS)
         IN  IF contains_slash(_type) THEN map
             ELSE insert(map, _resource, _type)

\* one iteration of the types loop
TypesTriple ==
    /\ types_handled < Len(types_graph)
    /\ dbpedia_resource_to_type' =
           types_step(dbpedia_resource_to_type, types_graph[types_handled + 1])
    /\ types_handled' = types_handled + 1
    /\ UNCHANGED <<types_graph, properties_graph, properties_handled,
                   ksVars, mainVars, cacheVars>>

\* the types loop run over a whole graph, from triple i on
RECURSIVE types_pass(_, _, _)
types_pass(graph, i, map) ==
    IF i > Len(graph) THEN map
    ELSE types_pass(graph, i + 1, types_step(map, graph[i]))

\* the body of `for triple in properties_graph.triples_iter()`: the index
\* after the triple; entry(..).or_insert_with(Vec::new).push(_value)
properties_step(index, map, triple) ==
    LET _value == parse_f64(triple.object)
        _resource == strip_prefix_or_self(triple.subject, RESOURCE_NS)
        _property == strip_prefix_or_self(triple.predicate, PROPERTY_NS)
    IN  IF ~_value.ok THEN index
        ELSE IF _resource \notin DOMAIN map THEN index
        ELSE LET key == <<map[_resource], _property>>
                 extension == IF key \in DOMAIN index THEN index[key] ELSE <<>>
             IN  insert(index, key, Append(extension, _value.val))

\* one iteration of the properties loop; the loop starts when the types
\* loop is over
PropertiesTriple ==
    /\ types_handled = Len(types_graph)
    /\ properties_handled < Len(properties_graph)
    /\ dbpedia_type_and_property_to_extension' =
           properties_step(dbpedia_type_and_property_to_extension,
                           dbpedia_resource_to_type,
                           properties_graph[properties_handled + 1])
    /\ properties_handled' = properties_handled + 1
    /\ UNCHANGED <<types_graph, types_handled, dbpedia_resource_to_type, properties_graph,
                   bag, k, compare_withs, dbpedia_type_and_property_to_ks_test_sorted,
                   printed, compare_out, pc, execution, first_ranking, ksVars, cacheVars>>

----------------------------------------------------------------------------
(* Specification SpecKS: ks applied to every pair of bags within the bounds *)

KsIdle ==
    /\ sorted_bag = <<>>
    /\ unsorted_bag = <<>>
    /\ lst_after = <<>>
    /\ ks_pc = "idle"
    /\ ks_result = NaN

MainIdle ==
    /\ dbpedia_type_and_property_to_extension = <<>>
    /\ bag = <<>>
    /\ k = 0
    /\ compare_withs = <<>>
    /\ dbpedia_type_and_property_to_ks_test_sorted = <<>>
    /\ printed = <<>>
    /\ compare_out = <<>>
    /\ pc = "idle"
    /\ execution = 0
    /\ first_ranking = <<>>

CacheIdle ==
    /\ input_tsv = <<>>
    /\ tsv_from = "none"
    /\ load_pc = "idle"
    /\ loaded_extension = <<>>

TypesIdle ==
    /\ types_graph = <<>>
    /\ types_handled = 0
    /\ dbpedia_resource_to_type = <<>>
    /\ properties_graph = <<>>
    /\ properties_handled = 0

InitKS ==
    /\ sorted_bag \in {s \in SeqsUpTo(BagValues, MaxLen) : IsSortedAsc(s)}
    /\ unsorted_bag \in SeqsUpTo(BagValues, MaxLen)
    /\ lst_after = <<>>
    /\ ks_pc = "call"
    /\ ks_result = NaN
    /\ MainIdle
    /\ CacheIdle
    /\ TypesIdle

\* one call of ks: it has no error path (1.0 / 0.0 is inf, sorting an empty
\* Vec is a no-op), so it always returns
KsCall ==
    /\ ks_pc = "call"
    /\ ks_result' = ks_call(sorted_bag, unsorted_bag).ret
    /\ lst_after' = ks_call(sorted_bag, unsorted_bag).lst
    /\ ks_pc' = "returned"
    /\ UNCHANGED <<sorted_bag, unsorted_bag, mainVars, cacheVars, typesVars>>

NextKS == KsCall

SpecKS == InitKS /\ [][NextKS]_vars


----------------------------------------------------------------------------
(* Inputs of the ranking runs *)

\* type and property names of the index
DbpediaTypes == {<<"a">>, <<"b">>}

DbpediaProperties == {<<"a">>, <<"b">>}

\* the extensions an index entry may hold (never empty: an entry is created
\* by a push, or loaded from a list with at least one token)
Extensions == {<<1>>, <<2, 1>>}

\* the indexes with at most n keys, each key mapped to one of exts
Indexes(exts, n) ==
    UNION {[K -> exts] : K \in {K \in SUBSET (DbpediaTypes \X DbpediaProperties) :
                                    Cardinality(K) <= n}}

\* --compare-with values: the three documented forms, a value without ':',
\* the lone separator and values with a second ':'
ComparePatterns ==
    {<<"a", ":">>, <<":", "b">>, <<"a", ":", "b">>, <<"a", "b">>,
     <<"a", ":", "b", ":", "a">>, <<":">>}

InitMain(indexes, bags, ks_, patterns) ==
    /\ dbpedia_type_and_property_to_extension \in indexes
    /\ bag \in bags
    /\ k \in ks_
    /\ compare_withs \in patterns
    /\ dbpedia_type_and_property_to_ks_test_sorted = <<>>
    /\ printed = <<>>
    /\ compare_out = <<>>
    /\ pc = "rank"
    /\ execution = 1
    /\ first_ranking = <<>>
    /\ KsIdle
    /\ CacheIdle
    /\ TypesIdle

\* Specification SpecRank: one run without --compare-with, any -k
InitRank ==
    InitMain(Indexes(Extensions, MaxKeys), SeqsUpTo(1..2, MaxBagLen), 0..MaxK, {<<>>})

NextRank == Rank \/ PrintTopK

SpecRank == InitRank /\ [][NextRank]_vars

\* Specification SpecRerun: the same run executed twice
InitRerun ==
    InitMain(Indexes(Extensions, MaxKeys), SeqsUpTo(1..2, MaxBagLen) \ {<<>>}, {DefaultK},
             {<<>>})

NextRerun == Rank \/ PrintTopK \/ RunAgain

SpecRerun == InitRerun /\ [][NextRerun]_vars

\* Specification SpecCompare: one run with --compare-with patterns
InitCompare ==
    InitMain(Indexes({<<1>>, <<2>>}, 2), {<<>>, <<1>>}, {DefaultK},
             SeqsUpTo(ComparePatterns, MaxPatterns))

NextCompare == Rank \/ PrintTopK \/ CompareWith

SpecCompare == InitCompare /\ [][NextCompare]_vars

----------------------------------------------------------------------------
(* Inputs of the cache runs *)

\* longest type or property name of a saved index
MaxNameLen == 1
\* most keys of a saved index
MaxSavedKeys == 2
\* most fields of a line of a given --input file
MaxFields == 4

\* the characters of a type name (the object of a type fact may be a
\* literal, which may hold a TAB) and of a property name
TypeNameChars == {"a", "\t"}

PropertyNameChars == {"a"}

SavedExtensions == {<<1>>, <<-2, 10>>}

\* the indexes with names of at most len characters and at most n keys
SavedIndexes(len, n) ==
    LET keys == SeqsUpTo(TypeNameChars, len) \X SeqsUpTo(PropertyNameChars, len)
    IN  UNION {[K -> SavedExtensions] : K \in {K \in SUBSET keys : Cardinality(K) <= n}}

\* Specification SpecRoundTrip: an index is saved by one run and loaded by
\* the next
InitRoundTrip ==
    /\ dbpedia_type_and_property_to_extension \in SavedIndexes(MaxNameLen, MaxSavedKeys)
    /\ bag = <<>> /\ k = DefaultK /\ compare_withs = <<>>
    /\ dbpedia_type_and_property_to_ks_test_sorted = <<>>
    /\ printed = <<>> /\ compare_out = <<>> /\ pc = "idle"
    /\ execution = 1 /\ first_ranking = <<>>
    /\ CacheIdle
    /\ KsIdle
    /\ TypesIdle

NextRoundTrip == Save \/ Load

SpecRoundTrip == InitRoundTrip /\ [][NextRoundTrip]_vars

\* the fields a line of a given file is made of
GivenFields ==
    {<<"a">>, <<>>, <<"[", "1", ".", "0", "]">>,
     <<"[", "1", ".", "0", ",", " ", "-", "2", "]">>,
     <<"[", "x", "]">>, <<"[", "]">>, <<"[", "1", ".", "0", ",", "2", "]">>}

\* the lines of at most n fields
GivenLines(n) ==
    {join(fields, <<"\t">>) : fields \in SeqsUpTo(GivenFields, n) \ {<<>>}}

GoodLine == <<"a", "\t", "a", "\t", "[", "1", ".", "0", "]">>

\* a given file: one line, alone or next to a well-formed line, each line
\* ended by "\n"
GivenFiles(n) ==
    UNION {{l \o <<"\n">>, GoodLine \o <<"\n">> \o l \o <<"\n">>,
            l \o <<"\n">> \o GoodLine \o <<"\n">>} : l \in GivenLines(n)}

\* Specification SpecLoad: --input on a file the user supplies
InitLoad ==
    /\ input_tsv \in GivenFiles(MaxFields)
    /\ tsv_from = "user"
    /\ load_pc = "idle"
    /\ loaded_extension = <<>>
    /\ MainIdle
    /\ KsIdle
    /\ TypesIdle

NextLoad == Load

SpecLoad == InitLoad /\ [][NextLoad]_vars

----------------------------------------------------------------------------
(* Inputs of the types pass *)

\* most triples of the --types graph
MaxTriples == 3

TypeSubjects == {<<RESOURCE_NS, "x">>, <<"x">>, <<RESOURCE_NS, "y">>}

\* a type with the ontology prefix, one without, one with a path below the
\* prefix
TypeObjects == {<<ONTOLOGY_NS, "T">>, <<"U">>, <<ONTOLOGY_NS, "T", "/", "V">>}

\* type facts for every subject and object, owl#Thing, and a fact with
\* another predicate
TypeTriples ==
    {[subject |-> s_, predicate |-> <<RDF_NS, RDF_TYPE>>, object |-> o_] :
         s_ \in TypeSubjects, o_ \in TypeObjects}
    \cup {[subject |-> <<RESOURCE_NS, "x">>, predicate |-> <<RDF_NS, RDF_TYPE>>,
            object |-> <<OWL_THING>>],
           [subject |-> <<RESOURCE_NS, "x">>, predicate |-> <<PROPERTY_NS, "p">>,
            object |-> <<ONTOLOGY_NS, "T">>]}

\* Specification SpecTypes: the types loop over every graph within the bounds
InitTypes ==
    /\ types_graph \in SeqsUpTo(TypeTriples, MaxTriples)
    /\ types_handled = 0
    /\ dbpedia_resource_to_type = <<>>
    /\ properties_graph = <<>>
    /\ properties_handled = 0
    /\ MainIdle
    /\ KsIdle
    /\ CacheIdle

NextTypes == TypesTriple

SpecTypes == InitTypes /\ [][NextTypes]_vars

----------------------------------------------------------------------------
(* Inputs of the properties pass *)

\* most triples of the --properties graph
MaxPropertyTriples == 3

TypeFact(s_, o_) == [subject |-> s_, predicate |-> <<RDF_NS, RDF_TYPE>>, object |-> o_]

\* the --types graphs of the runs: none, one typed resource, two resources of
\* one type, two of different types, one resource typed twice
PropertyRunTypeGraphs ==
    {<<>>,
     <<TypeFact(<<RESOURCE_NS, "x">>, <<ONTOLOGY_NS, "T">>)>>,
     <<TypeFact(<<RESOURCE_NS, "x">>, <<ONTOLOGY_NS, "T">>),
       TypeFact(<<RESOURCE_NS, "y">>, <<ONTOLOGY_NS, "T">>)>>,
     <<TypeFact(<<RESOURCE_NS, "x">>, <<ONTOLOGY_NS, "T">>),
       TypeFact(<<RESOURCE_NS, "y">>, <<"U">>)>>,
     <<TypeFact(<<RESOURCE_NS, "x">>, <<ONTOLOGY_NS, "T">>),
       TypeFact(<<"x">>, <<"U">>)>>}

PropertyFact(s_, p_, o_) == [subject |-> s_, predicate |-> p_, object |-> o_]

\* property facts: two numbers, a text, NaN and inf, with and without the
\* namespaces,
\* for the resources x and y and for a resource z that no type fact names
PropertyTriples ==
    {PropertyFact(<<RESOURCE_NS, "x">>, p_, o_) :
         p_ \in {<<PROPERTY_NS, "p">>, <<"q">>},
         o_ \in {<<"1">>, <<"2", ".", "0">>, <<"n">>}}
    \cup {PropertyFact(<<RESOURCE_NS, "x">>, <<PROPERTY_NS, "p">>, <<"N", "a", "N">>),
           PropertyFact(<<RESOURCE_NS, "x">>, <<PROPERTY_NS, "p">>, <<"i", "n", "f">>),
           PropertyFact(<<"y">>, <<PROPERTY_NS, "p">>, <<"1">>),
           PropertyFact(<<RESOURCE_NS, "y">>, <<"p">>, <<"-", "3">>),
           PropertyFact(<<RESOURCE_NS, "z">>, <<PROPERTY_NS, "p">>, <<"1">>)}

\* Specification SpecProperties: the properties loop, started after the types
\* loop has built the map, over every graph within the bounds
InitProperties ==
    /\ types_graph \in PropertyRunTypeGraphs
    /\ types_handled = Len(types_graph)
    /\ dbpedia_resource_to_type = types_pass(types_graph, 1, <<>>)
    /\ properties_graph \in SeqsUpTo(PropertyTriples, MaxPropertyTriples)
    /\ properties_handled = 0
    /\ MainIdle
    /\ KsIdle
    /\ CacheIdle

NextProperties == PropertiesTriple

SpecProperties == InitProperties /\ [][NextProperties]_vars

----------------------------------------------------------------------------
(* The two-sample KS statistic, from its definition *)

\* #{e in s : e <= x}
count_le(s, x) == Cardinality({i \in 1..Len(s) : s[i] <= x})

\* |a| * |b| * |F_a(x) - F_b(x)|
cdf_gap(a, b, x) == Abs(count_le(a, x) * Len(b) - count_le(b, x) * Len(a))

\* |a| * |b| * max over x in a or b of |F_a(x) - F_b(x)|
ks_statistic_scaled(a, b) ==
    LET xs == Range(a) \cup Range(b)
    IN  CHOOSE m \in {cdf_gap(a, b, x) : x \in xs} :
            \A x \in xs : cdf_gap(a, b, x) <= m

KsReturned == ks_pc = "returned"

\* C1: for a non-empty ascending sorted_bag and a non-empty unsorted_bag, ks
\* returns max over the values x of either bag of
\* |#{a <= x}/|a| - #{b <= x}/|b||; it lies in [0, 1], is 0 for equal bags and
\* 1/3 for [1,2,3] against any order of [2,3,4].
C1_KsIsStatistic ==
    (KsReturned /\ sorted_bag # <<>> /\ unsorted_bag # <<>>) =>
        /\ ks_result.k = "fin"
        /\ ks_result.n * Len(sorted_bag) * Len(unsorted_bag)
               = ks_statistic_scaled(sorted_bag, unsorted_bag) * ks_result.d
        /\ 0 <= ks_result.n /\ ks_result.n <= ks_result.d
        /\ (sorted_bag = lst_after => ks_result.n = 0)
        /\ (sorted_bag = <<1, 2, 3>> /\ lst_after = <<2, 3, 4>>
               => 3 * ks_result.n = ks_result.d)

\* C1 witness: the call on [1,2,3] and [2,3,4] has returned 1/3
C1_Witness ==
    /\ KsReturned
    /\ sorted_bag = <<1, 2, 3>> /\ unsorted_bag = <<4, 2, 3>>
    /\ ks_result.k = "fin" /\ 3 * ks_result.n = ks_result.d

\* C2 (as claimed): a call of ks with an empty bag on either side does not
\* return a number: it ends in an input-validation error.
C2_EmptyBagIsError ==
    (ks_pc \notin {"idle", "call"} /\ (sorted_bag = <<>> \/ unsorted_bag = <<>>)) =>
        (ks_pc = "error" /\ ks_result.k # "fin")

\* what the code does on an empty bag: it returns the distance 0
C2_EmptyBagReturnsZero ==
    (ks_pc \notin {"idle", "call"} /\ (sorted_bag = <<>> \/ unsorted_bag = <<>>)) =>
        (ks_pc = "returned" /\ ks_result = Fin(0, 1))

----------------------------------------------------------------------------
(* Ranking and query layer *)

ranking == dbpedia_type_and_property_to_ks_test_sorted

\* C3: the top-k loop prints exactly the first min(k, length) entries of the
\* ranking, in order, and never fails: nothing for k = 0, the whole ranking
\* for k > length.
C3_TopKPrefix ==
    (pc \in {"compare", "done", "panic"}) =>
        /\ pc # "panic"
        /\ printed = SubSeq(ranking, 1, Min(k, Len(ranking)))
        /\ (k = 0 => printed = <<>>)
        /\ (k > Len(ranking) => printed = ranking)

\* C3 witness: a run with k above the number of entries has printed them all
C3_Witness ==
    /\ pc = "done"
    /\ Len(ranking) >= 2 /\ k > Len(ranking)
    /\ printed = ranking

\* C4: the ranking holds exactly one entry per key of the index, each with
\* ks(query, values) of its key, in non-decreasing order of distance.
C4_RankComplete ==
    (pc \in {"top_k", "compare", "done"}) =>
        /\ Len(ranking) = Cardinality(DOMAIN dbpedia_type_and_property_to_extension)
        /\ {ranking[i].key : i \in 1..Len(ranking)}
               = DOMAIN dbpedia_type_and_property_to_extension
        /\ \A i \in 1..Len(ranking) :
               LET values == dbpedia_type_and_property_to_extension[ranking[i].key]
               IN  /\ ranking[i].score = ks(bag, values)
                   /\ ranking[i].score.k = "fin"
                   /\ (bag # <<>> =>
                          ranking[i].score.n * Len(bag) * Len(values)
                              = ks_statistic_scaled(bag, values) * ranking[i].score.d)
        /\ \A i, j \in 1..Len(ranking) :
               i < j => ~f64_lt(ranking[j].score, ranking[i].score)

\* C4 witness: three entries ranked, the first strictly nearer than the last
C4_Witness ==
    /\ pc = "done"
    /\ Len(ranking) = 3
    /\ f64_lt(ranking[1].score, ranking[3].score)

\* C9 (as claimed): a second execution on the same index and query bag
\* produces the same ranking as the first, entries of equal distance included.
C9_SameRankingAgain ==
    (execution = 2 /\ pc \in {"top_k", "compare", "done"}) => ranking = first_ranking

\* the positions of ':' in a pattern
colons(pattern) == {i \in 1..Len(pattern) : pattern[i] = ":"}

\* the outputs the three forms allow for a pattern read as <t>:<q>
form_outputs(t, q) ==
    LET of_type(e) == e.key[1] = t
        of_property(e) == e.key[2] = q
        of_both(e) == e.key[1] = t /\ e.key[2] = q
    IN  (IF q = <<>> THEN {SelectSeq(ranking, of_type)} ELSE {})
        \cup (IF t = <<>> THEN {SelectSeq(ranking, of_property)} ELSE {})
        \cup (IF t # <<>> /\ q # <<>> THEN {SelectSeq(ranking, of_both)} ELSE {})

\* the outputs allowed for a pattern, whichever of its ':' is the separator
pattern_outputs(pattern) ==
    UNION {form_outputs(SubSeq(pattern, 1, i - 1), SubSeq(pattern, i + 1, Len(pattern))) :
               i \in colons(pattern)}

\* C5 (as claimed): for every pattern that contains ':', the entries printed
\* are those of the full ranking selected by the pattern's form: "<type>:"
\* by type, ":<property>" by property, "<type>:<property>" by both.
C5_FilterByForm ==
    \A i \in 1..Len(compare_out) :
        colons(compare_withs[i]) # {} =>
            /\ ~compare_out[i].error
            /\ compare_out[i].rows \in pattern_outputs(compare_withs[i])

\* C6: a pattern without ':' gets an error report and no entries; the run
\* goes on, and every other pattern, before and after it, is handled and
\* prints its own output.
C6_BadPatternIsLocal ==
    /\ pc # "panic"
    /\ (pc = "done" => Len(compare_out) = Len(compare_withs))
    /\ \A i \in 1..Len(compare_out) :
           /\ compare_out[i].pattern = compare_withs[i]
           /\ (colons(compare_withs[i]) = {} =>
                  compare_out[i].error /\ compare_out[i].rows = <<>>)
           /\ (colons(compare_withs[i]) # {} => ~compare_out[i].error)
           /\ (Cardinality(colons(compare_withs[i])) = 1 =>
                  compare_out[i].rows \in pattern_outputs(compare_withs[i]))

\* C6 witness: a finished run whose first pattern had no ':' and whose second
\* pattern printed entries
C6_Witness ==
    /\ pc = "done"
    /\ Len(compare_out) = 2
    /\ compare_out[1].error
    /\ ~compare_out[2].error /\ compare_out[2].rows # <<>>

----------------------------------------------------------------------------
(* Distribution cache *)

\* C7 (as claimed): loading what --output wrote for an index gives back the
\* same set of (type, property) keys and, per key, the same sequence of
\* values.
C7_RoundTrip ==
    (tsv_from = "save" /\ load_pc # "idle") =>
        /\ load_pc = "loaded"
        /\ loaded_extension = dbpedia_type_and_property_to_extension

\* the round trip does hold for the indexes whose names hold no TAB
C7_RoundTripWithoutTab ==
    (/\ tsv_from = "save" /\ load_pc # "idle"
     /\ \A key \in DOMAIN dbpedia_type_and_property_to_extension :
            "\t" \notin Range(key[1]) \cup Range(key[2])) =>
        /\ load_pc = "loaded"
        /\ loaded_extension = dbpedia_type_and_property_to_extension

\* a line is well-formed: exactly three tab-separated fields, the third a
\* list whose tokens all parse as numbers
record_ok(line) ==
    LET fields == split(line, <<"\t">>)
    IN  /\ Len(fields) = 3
        /\ parse_string_to_vector(fields[3]).ok

\* C8 (as claimed): if any record of the file has a wrong field count (fewer
\* or more than three) or a value token that is no number, the load ends in a
\* fatal error; no such record is skipped or partly accepted.
C8_LoadIsStrict ==
    (/\ tsv_from = "user" /\ load_pc # "idle"
     /\ \E i \in 1..Len(read_lines(input_tsv)) : ~record_ok(read_lines(input_tsv)[i])) =>
        load_pc = "panic"

\* the load does end in a panic for every record with fewer than three
\* fields or with a token that is no number
C8_LoadRejectsShortOrUnparsable ==
    (/\ tsv_from = "user" /\ load_pc # "idle"
     /\ \E i \in 1..Len(read_lines(input_tsv)) :
            LET fields == split(read_lines(input_tsv)[i], <<"\t">>)
            IN  Len(fields) < 3 \/ ~parse_string_to_vector(fields[3]).ok) =>
        load_pc = "panic"

----------------------------------------------------------------------------
(* Types pass *)

\* the triple is a type fact the pass accepts
accepted(triple) ==
    /\ contains_rdf_type(triple.predicate)
    /\ ~contains_slash(strip_prefix_or_self(triple.object, ONTOLOGY_NS))

\* the positions among the first n triples of the accepted facts for resource
accepted_for(resource, n) ==
    {i \in 1..n : /\ accepted(types_graph[i])
                  /\ strip_prefix_or_self(types_graph[i].subject, RESOURCE_NS) = resource}

\* the greatest element of a non-empty set of positions
last_of(positions) == CHOOSE i \in positions : \A j \in positions : j <= i

\* C10: after any number of type facts the map holds, for a resource, the
\* type of the last accepted fact handled for it and nothing for a resource
\* without one; a skipped fact (predicate not rdf:type, or a stripped type
\* name with '/') changes nothing, so no stored type name holds '/'.
C10_LastTypeWins ==
    LET resources == {strip_prefix_or_self(types_graph[i].subject, RESOURCE_NS) :
                          i \in 1..types_handled}
    IN  /\ DOMAIN dbpedia_resource_to_type = {r \in resources : accepted_for(r, types_handled) # {}}
        /\ \A r \in DOMAIN dbpedia_resource_to_type :
               /\ dbpedia_resource_to_type[r] =
                      strip_prefix_or_self(types_graph[last_of(accepted_for(r, types_handled))].object,
                                           ONTOLOGY_NS)
               /\ ~contains_slash(dbpedia_resource_to_type[r])

\* C10 witness: the pass is over; "x" got type T, then type U, then a fact
\* that is skipped, and holds U
C10_Witness ==
    /\ types_handled = 3 /\ Len(types_graph) = 3
    /\ accepted(types_graph[1]) /\ accepted(types_graph[2]) /\ ~accepted(types_graph[3])
    /\ types_graph[1].object = <<ONTOLOGY_NS, "T">>
    /\ types_graph[2].object = <<"U">>
    /\ \A i \in 1..3 : strip_prefix_or_self(types_graph[i].subject, RESOURCE_NS) = <<"x">>
    /\ dbpedia_resource_to_type = (<<"x">> :> <<"U">>)

----------------------------------------------------------------------------
(* Properties pass *)

\* the text is a finite decimal numeral: it parses, and not to an infinity
\* or to NaN
is_finite_number(text) ==
    LET body == IF text # <<>> /\ text[1] \in {"-", "+"} THEN Tail(text) ELSE text
        word == [i \in 1..Len(body) |-> ascii_lower(body[i])]
    IN  /\ parse_f64(text).ok
        /\ word \notin {<<"i", "n", "f">>, <<"i", "n", "f", "i", "n", "i", "t", "y">>,
                        <<"n", "a", "n">>}

\* the property fact at position i is one whose value belongs in the index:
\* its object is a number and its stripped subject has a type in the map
contributes(i) ==
    /\ is_finite_number(properties_graph[i].object)
    /\ strip_prefix_or_self(properties_graph[i].subject, RESOURCE_NS)
           \in DOMAIN dbpedia_resource_to_type

\* the key the fact at position i belongs to
key_of(i) ==
    <<dbpedia_resource_to_type[strip_prefix_or_self(properties_graph[i].subject, RESOURCE_NS)],
      strip_prefix_or_self(properties_graph[i].predicate, PROPERTY_NS)>>

\* the values of the facts among the first n that belong to key, in order
RECURSIVE values_for(_, _)
values_for(key, n) ==
    IF n = 0 THEN <<>>
    ELSE IF contributes(n) /\ key_of(n) = key
    THEN Append(values_for(key, n - 1), parse_f64(properties_graph[n].object).val)
    ELSE values_for(key, n - 1)

====
